---- MODULE Spec2Model ----
(***************************************************************************)
(* A model of wikipedia_scraper.py: the WikipediaScraper class (snapshot   *)
(* building, the three exporters, single and batch processing) and main(). *)
(* Strings are sequences of one-character strings, the output directory is *)
(* a set of files, and the Wikipedia provider is a pool of pages from      *)
(* which each lookup draws one.                                            *)
(***************************************************************************)
EXTENDS Integers, Sequences, FiniteSets, TLC

VARIABLES args, input_file, pool, pc, titles, idx, files, clock, page, data, log

vars == <<args, input_file, pool, pc, titles, idx, files, clock, page, data, log>>

(***************************************************************************)
(* Bounds of the model.                                                    *)
(***************************************************************************)
\* The number of nested _get_sections frames the interpreter admits before
\* it raises RecursionError (scaled down from CPython's limit).
MaxRecursion == 4
\* The largest number of sibling sections at one level of a generated page.
MaxWidth == 2
\* The largest number of lines of the batch input file.
MaxLines == 2

(***************************************************************************)
(* Program constants.                                                      *)
(***************************************************************************)
SectionTextMax == 500
LinksMax == 100
ReferencesTextMax == 1000
MarkdownCategoriesMax == 20
MarkdownLinksMax == 50

\* Python's None.
None == [none |-> TRUE]

Min(a, b) == IF a <= b THEN a ELSE b

\* s[:n] for n >= 0.
Take(s, n) == SubSeq(s, 1, Min(n, Len(s)))

(***************************************************************************)
(* Characters.                                                             *)
(***************************************************************************)
\* The characters of the model's titles for which str.isalnum() is true.
\* A character outside ASCII is written as its code point: "u5B57" is one
\* character.
Alnum == {"C", "G", "o", "x", "1", "u5B57"}

Whitespace == {" ", "\n"}

\* str.lower() on the characters of the model's section titles.
LowerChar(c) ==
    CASE c = "R" -> "r"
      [] c = "N" -> "n"
      [] c = "O" -> "o"
      [] c = "T" -> "t"
      [] c = "E" -> "e"
      [] c = "S" -> "s"
      [] c = "H" -> "h"
      [] c = "F" -> "f"
      [] OTHER -> c

Lower(s) == [i \in 1..Len(s) |-> LowerChar(s[i])]

\* k in s, for strings.
Contains(s, k) ==
    \E i \in 0..(Len(s) - Len(k)) : SubSeq(s, i + 1, i + Len(k)) = k

RECURSIVE LStrip(_)
LStrip(s) ==
    IF s # <<>> /\ Head(s) \in Whitespace THEN LStrip(Tail(s)) ELSE s

RECURSIVE RStrip(_)
RStrip(s) ==
    IF s # <<>> /\ s[Len(s)] \in Whitespace
    THEN RStrip(SubSeq(s, 1, Len(s) - 1))
    ELSE s

\* str.strip()
Strip(s) == RStrip(LStrip(s))

(***************************************************************************)
(* Snapshot building.                                                      *)
(***************************************************************************)
\* self.wiki.page(title): the provider's page for the title.
wiki_page(title, content) == [content EXCEPT !.title = title]

\* A variant of search_page that does not look at page.exists().
search_page_any(p) == p

\* The page, or None when page.exists() is false.
search_page(p) == IF p.exists THEN p ELSE None

_get_categories(p) == IF p.categories_raise THEN <<>> ELSE p.categories

Ellipsis == <<".", ".", ".">>

\* A variant of the excerpt that also cuts a text of exactly 500 characters.
excerpt_ge(text) ==
    IF Len(text) >= SectionTextMax
    THEN Take(text, SectionTextMax) \o Ellipsis
    ELSE text

\* s.text[:500] + '...' if len(s.text) > 500 else s.text
excerpt(text) ==
    IF Len(text) > SectionTextMax
    THEN Take(text, SectionTextMax) \o Ellipsis
    ELSE text

\* The list a call of _get_sections returns for the sections secs at
\* `level`, sub[i] being the result of the recursive call on secs[i].
section_list(secs, level, sub) ==
    [i \in 1..Len(secs) |->
        [title |-> secs[i].title,
         level |-> level,
         text |-> excerpt(secs[i].text),
         subsections |-> sub[i].value]]

\* A result of _get_sections: the list, or the RecursionError raised below.
SectionsResult(secs, level, sub) ==
    IF \E i \in 1..Len(secs) : sub[i].raised
    THEN [raised |-> TRUE, value |-> <<>>]
    ELSE [raised |-> FALSE, value |-> section_list(secs, level, sub)]

\* A variant of _get_sections that recurses without incrementing the level.
RECURSIVE sections_same_level(_, _)
sections_same_level(section, level) ==
    IF level >= MaxRecursion
    THEN [raised |-> TRUE, value |-> <<>>]
    ELSE SectionsResult(section.sections, level,
            [i \in 1..Len(section.sections) |->
                sections_same_level(section.sections[i], level)])

\* The sections of `section`, each with the tree below it.  A call at a
\* level the interpreter no longer admits raises RecursionError, which
\* nothing catches on the way up.
RECURSIVE _get_sections(_, _)
_get_sections(section, level) ==
    IF level >= MaxRecursion
    THEN [raised |-> TRUE, value |-> <<>>]
    ELSE SectionsResult(section.sections, level,
            [i \in 1..Len(section.sections) |->
                _get_sections(section.sections[i], level + 1)])

\* A variant of _get_links that counts the retained links.
_get_links_capped_count(p) ==
    IF p.links_raise
    THEN [internal_links |-> <<>>, internal_links_count |-> 0]
    ELSE [internal_links |-> Take(p.links, LinksMax),
          internal_links_count |-> Len(Take(p.links, LinksMax))]

_get_links(p) ==
    IF p.links_raise
    THEN [internal_links |-> <<>>, internal_links_count |-> 0]
    ELSE [internal_links |-> Take(p.links, LinksMax),
          internal_links_count |-> Len(p.links)]

Keywords ==
    << <<"u53C2", "u8003">>, <<"u811A", "u6CE8">>, <<"u51FA", "u5178">>,
       <<"r", "e", "f", "e", "r", "e", "n", "c", "e", "s">>,
       <<"n", "o", "t", "e", "s">> >>

IsReferenceTitle(t) ==
    \E k \in 1..Len(Keywords) : Contains(Lower(t), Keywords[k])

\* The index of the section the loop breaks at, 0 when it runs to the end.
FirstReference(secs) ==
    IF \E i \in 1..Len(secs) : IsReferenceTitle(secs[i].title)
    THEN CHOOSE i \in 1..Len(secs) :
            /\ IsReferenceTitle(secs[i].title)
            /\ \A j \in 1..(i - 1) : ~IsReferenceTitle(secs[j].title)
    ELSE 0

references_of(references_section) ==
    [has_references_section |-> references_section # <<>>,
     references_text |->
         IF references_section # <<>>
         THEN Take(references_section, ReferencesTextMax)
         ELSE <<>>]

_get_references(p) ==
    references_of(IF FirstReference(p.sections) = 0
                  THEN <<>>
                  ELSE p.sections[FirstReference(p.sections)].text)

\* The dictionary get_all_data builds of the page p, secs being the result
\* of _get_sections; RecursionError leaves get_all_data.
snapshot(p, secs, language, now) ==
    IF secs.raised
    THEN [error |-> "recursion", data |-> None]
    ELSE [error |-> "none",
          data |->
            [title |-> p.title,
             pageid |-> p.pageid,
             url |-> p.fullurl,
             canonical_url |-> p.canonicalurl,
             language |-> language,
             timestamp |-> now,
             summary |-> p.summary,
             full_text |-> p.text,
             categories |-> _get_categories(p),
             sections |-> secs.value,
             links |-> _get_links(p),
             references |-> _get_references(p),
             backlinks |-> <<>>]]

\* get_all_data on the provider's page p.
get_page_data(p, language, now) ==
    IF p.raises
    THEN [error |-> "provider", data |-> None]
    ELSE IF search_page(p) = None
    THEN [error |-> "none", data |-> None]
    ELSE snapshot(p, _get_sections(p, 0), language, now)

\* The result of get_all_data: the exception it lets through, if any, and
\* the value it returns otherwise.
get_all_data(title, content, language, now) ==
    get_page_data(wiki_page(title, content), language, now)

(***************************************************************************)
(* Exporters.  The output directory is a set of files [name, body]; an     *)
(* exporter's state is the directory, the exception raised so far, the     *)
(* exporters invoked so far and the names of the files they wrote.         *)
(***************************************************************************)
\* "".join(c if c.isalnum() or c in (' ', '-', '_') else '_' for c in title)
safe_title(title) ==
    [i \in 1..Len(title) |->
        IF title[i] \in Alnum \/ title[i] \in {" ", "-", "_"}
        THEN title[i]
        ELSE "_"]

MdSuffix == <<"_", "c", "o", "m", "p", "l", "e", "t", "e", ".", "m", "d">>
JsonSuffix ==
    <<"_", "c", "o", "m", "p", "l", "e", "t", "e", ".", "j", "s", "o", "n">>
TxtSuffix == <<"_", "c", "o", "m", "p", "l", "e", "t", "e", ".", "t", "x", "t">>

\* open(filepath, 'w') and the writes under it: the file replaces the one
\* of the same name.
WriteFile(fs, name, body) ==
    {f \in fs : f.name # name} \cup {[name |-> name, body |-> body]}

\* open() raising: nothing is written and the exception leaves the exporter.
Raise(st, exporter) ==
    [st EXCEPT !.error = "export", !.invoked = Append(@, exporter)]

Written(st, exporter, name, body) ==
    [st EXCEPT !.fs = WriteFile(@, name, body),
               !.invoked = Append(@, exporter),
               !.written = Append(@, name)]

\* The lines _write_sections_markdown writes, in order.
RECURSIVE _write_sections_markdown(_, _)
_write_sections_markdown(sections, indent) ==
    IF sections = <<>>
    THEN <<>>
    ELSE << [indent |-> indent,
             title |-> Head(sections).title,
             level |-> Head(sections).level] >>
         \o (IF Head(sections).subsections # <<>>
             THEN _write_sections_markdown(Head(sections).subsections,
                                           indent + 1)
             ELSE <<>>)
         \o _write_sections_markdown(Tail(sections), indent)

\* The category part of the Markdown file; a note is a sequence of at most
\* one number.
markdown_categories(d) ==
    IF d.categories # <<>>
    THEN [listed |-> Take(d.categories, MarkdownCategoriesMax),
          more |-> IF Len(d.categories) > MarkdownCategoriesMax
                   THEN <<Len(d.categories) - MarkdownCategoriesMax>>
                   ELSE <<>>]
    ELSE [listed |-> <<>>, more |-> <<>>]

\* A variant of the link part whose note counts from the total.
markdown_links_total_note(d) ==
    [total |-> d.links.internal_links_count,
     listed |-> Take(d.links.internal_links, MarkdownLinksMax),
     more |-> IF d.links.internal_links_count > MarkdownLinksMax
              THEN <<d.links.internal_links_count - MarkdownLinksMax>>
              ELSE <<>>]

\* The link part of the Markdown file.
markdown_links(d) ==
    [total |-> d.links.internal_links_count,
     listed |-> IF d.links.internal_links # <<>>
                THEN Take(d.links.internal_links, MarkdownLinksMax)
                ELSE <<>>,
     more |-> IF d.links.internal_links # <<>>
                 /\ Len(d.links.internal_links) > MarkdownLinksMax
              THEN <<Len(d.links.internal_links) - MarkdownLinksMax>>
              ELSE <<>>]

save_to_markdown(title, d, st, unwritable) ==
    IF "markdown" \in unwritable
    THEN Raise(st, "markdown")
    ELSE Written(st, "markdown", safe_title(title) \o MdSuffix,
            [title |-> d.title,
             pageid |-> d.pageid,
             url |-> d.url,
             language |-> d.language,
             timestamp |-> d.timestamp,
             summary |-> d.summary,
             categories |-> markdown_categories(d),
             sections |-> _write_sections_markdown(d.sections, 0),
             full_text |-> d.full_text,
             links |-> markdown_links(d),
             references |-> IF d.references.has_references_section
                            THEN <<d.references.references_text>>
                            ELSE <<>>])

\* A variant of save_to_json that names the file by the raw title.
save_to_json_raw_name(title, d, st, unwritable) ==
    IF "json" \in unwritable
    THEN Raise(st, "json")
    ELSE Written(st, "json", title \o JsonSuffix, d)

\* json.dump(data, f)
save_to_json(title, d, st, unwritable) ==
    IF "json" \in unwritable
    THEN Raise(st, "json")
    ELSE Written(st, "json", safe_title(title) \o JsonSuffix, d)

save_to_text(title, d, st, unwritable) ==
    IF "text" \in unwritable
    THEN Raise(st, "text")
    ELSE Written(st, "text", safe_title(title) \o TxtSuffix,
            [title |-> d.title,
             pageid |-> d.pageid,
             url |-> d.url,
             language |-> d.language,
             timestamp |-> d.timestamp,
             summary |-> d.summary,
             categories |-> d.categories,
             full_text |-> d.full_text,
             links_count |-> d.links.internal_links_count])

(***************************************************************************)
(* process_single: one lookup, then the exporters the format selects, in   *)
(* the order markdown, json, text.  An exception of a call ends            *)
(* process_single at that call.  unwritable is the set of exporters whose  *)
(* open() fails.  The result carries the snapshot and the exception that   *)
(* leaves process_single ("none" when it returns).                         *)
(***************************************************************************)
\* The state process_single starts the exporters in.
Fetched(r, fs) ==
    [fs |-> fs, error |-> r.error, invoked |-> <<>>, written |-> <<>>,
     data |-> r.data]

\* if output_format in [...]: exporter(title, data), within `if data:` and
\* unless an exception is already on its way out.
Selected(st, output_format, names) ==
    st.error = "none" /\ st.data # None /\ output_format \in names

markdown_step(title, output_format, st, unwritable) ==
    IF Selected(st, output_format, {"markdown", "all"})
    THEN save_to_markdown(title, st.data, st, unwritable)
    ELSE st

json_step(title, output_format, st, unwritable) ==
    IF Selected(st, output_format, {"json", "all"})
    THEN save_to_json(title, st.data, st, unwritable)
    ELSE st

text_step(title, output_format, st, unwritable) ==
    IF Selected(st, output_format, {"text", "all"})
    THEN save_to_text(title, st.data, st, unwritable)
    ELSE st

process_single(title, output_format, content, language, now, fs, unwritable) ==
    text_step(title, output_format,
        json_step(title, output_format,
            markdown_step(title, output_format,
                Fetched(get_all_data(title, content, language, now), fs),
                unwritable),
            unwritable),
        unwritable)

(***************************************************************************)
(* The provider's pages.  A generated page has d levels of sections, w     *)
(* sections at each level of which one nests; k rotates the titles, the    *)
(* text lengths and the texts, so that reference titles, empty texts and   *)
(* the lengths around the two text limits meet in every combination.       *)
(***************************************************************************)
Alphabet == <<"a", "b", "c">>

\* A text of n characters; for odd k it ends with three dots of its own.
TextOf(n, k) ==
    [i \in 1..n |->
        IF k % 2 = 1 /\ i > n - 3 THEN "." ELSE Alphabet[((i + k) % 3) + 1]]

Lens == <<0, 3, 499, 500, 501, 502, 1000, 1001>>

SectionTitles ==
    << <<"H", "i", "s", "t", "o", "r", "y">>,
       <<"R", "e", "f", "e", "r", "e", "n", "c", "e", "s">>,
       <<"N", "o", "t", "e">>,
       <<"N", "O", "T", "E", "S">>,
       <<"u811A", "u6CE8">>,
       <<"F", "o", "o", "t", "n", "o", "t", "e", "s">> >>

RECURSIVE MkSections(_, _, _)
MkSections(d, w, k) ==
    IF d = 0
    THEN <<>>
    ELSE [j \in 1..w |->
            [title |-> SectionTitles[((k + j) % Len(SectionTitles)) + 1],
             text |-> TextOf(Lens[((k + d + j) % Len(Lens)) + 1], k + j),
             sections |-> IF j = 1 + (k % w)
                          THEN MkSections(d - 1, w, k + 1)
                          ELSE <<>>]]

MkPage(d, w, k, n, lr) ==
    [title |-> <<>>,
     exists |-> TRUE,
     raises |-> FALSE,
     pageid |-> 1 + k,
     fullurl |-> "fullurl",
     canonicalurl |-> "canonicalurl",
     summary |-> TextOf(3, k),
     text |-> TextOf(5, k),
     categories |-> [i \in 1..(3 * k) |-> i],
     categories_raise |-> (k % 4 = 1),
     sections |-> MkSections(d, w, k),
     links |-> [i \in 1..n |-> i],
     links_raise |-> lr]

\* The page of a title Wikipedia does not have.
NoPage == [MkPage(0, 1, 0, 0, FALSE) EXCEPT !.exists = FALSE, !.pageid = -1]

\* A page whose lookup raises (the request to the provider fails).
ErrPage == [MkPage(0, 1, 0, 0, FALSE) EXCEPT !.raises = TRUE]

LinkCounts == {0, 1, 50, 51, 100, 101, 150}

RichPool ==
    {MkPage(d, w, k, n, FALSE) :
        d \in 0..MaxRecursion, w \in 1..MaxWidth, k \in 0..(Len(Lens) - 1),
        n \in LinkCounts}
    \cup {MkPage(d, w, k, 1, TRUE) :
        d \in 0..MaxRecursion, w \in 1..MaxWidth, k \in 0..(Len(Lens) - 1)}
    \cup {NoPage, ErrPage}

LightPool ==
    {NoPage, ErrPage, MkPage(1, 1, 1, 0, FALSE), MkPage(2, 2, 4, 150, FALSE),
     MkPage(MaxRecursion, 1, 0, 1, TRUE)}

\* The pages the provider may answer with; the variable pool names the set.
Pages(name) == IF name = "rich" THEN RichPool ELSE LightPool

(***************************************************************************)
(* The command line and the batch input file.                              *)
(***************************************************************************)
Formats == {"markdown", "json", "text", "all"}

TitleArgs == {<<"C", "+", "+">>, <<"G", "o", " ", "1", "-", "_">>}

\* The lines of an input file: two titles, one of them padded, and a blank
\* line.
LineSet ==
    {<<"C", "+", "+", "\n">>,
     <<" ", "G", "o", " ", "1", "-", "_", " ", "\n">>,
     <<" ", "\n">>}

LineLists == UNION {[1..n -> LineSet] : n \in 0..MaxLines}

\* [line.strip() for line in f if line.strip()]
ReadTitles(lines) ==
    LET NonBlank(l) == Strip(l) # <<>>
        kept == SelectSeq(lines, NonBlank)
    IN  [i \in 1..Len(kept) |-> Strip(kept[i])]

NoFile == [exists |-> FALSE, lines |-> <<>>]

\* The sets of exporters whose open() fails during one call.
Unwritable == {{}, {"markdown"}, {"json"}, {"text"}}

Start ==
    /\ pc = "main"
    /\ titles = <<>>
    /\ idx = 1
    /\ files = {}
    /\ clock = 0
    /\ page = NoPage
    /\ data = None
    /\ log = <<>>

SingleArgs ==
    /\ args \in [title : TitleArgs, inputs : {""}, format : Formats,
                 lang : {"ja"}]
    /\ input_file = NoFile

BatchArgs ==
    /\ args \in [title : {<<>>}, inputs : {"keywords.txt"}, format : Formats,
                 lang : {"ja"}]
    /\ input_file \in {NoFile} \cup [exists : {TRUE}, lines : LineLists]

NoArgs ==
    /\ args \in [title : {<<>>}, inputs : {""}, format : Formats,
                 lang : {"ja"}]
    /\ input_file = NoFile

Init ==
    /\ SingleArgs \/ BatchArgs \/ NoArgs
    /\ pool = "light"
    /\ Start

\* A run on one title against every generated page.
InitSingle ==
    /\ SingleArgs
    /\ pool = "rich"
    /\ Start

(***************************************************************************)
(* main() and process_multiple.                                            *)
(***************************************************************************)
\* One call of process_single on `title`: the provider answers with a page
\* of the pool, and the environment decides which open() fails.
Outcome(title, content, r) ==
    /\ files' = r.fs
    /\ data' = r.data
    /\ page' = wiki_page(title, content)
    /\ clock' = IF r.data # None THEN clock + 1 ELSE clock
    /\ log' = Append(log, [title |-> title,
                           exists |-> ~content.raises /\ content.exists,
                           error |-> r.error,
                           snapshot |-> r.data # None,
                           invoked |-> r.invoked,
                           written |-> r.written])

Call(title, content, unwritable) ==
    Outcome(title, content,
            process_single(title, args.format, content, args.lang, clock,
                           files, unwritable))

\* main() without a title and without --inputs prints the usage.
Usage ==
    /\ pc = "main"
    /\ args.title = <<>>
    /\ args.inputs = ""
    /\ pc' = "usage"
    /\ UNCHANGED <<args, input_file, pool, titles, idx, files, clock, page,
                   data, log>>

\* main() with a title: process_single, whose exception nothing catches.
RunSingle ==
    /\ pc = "main"
    /\ args.inputs = ""
    /\ args.title # <<>>
    /\ \E content \in Pages(pool), unwritable \in Unwritable :
          Call(args.title, content, unwritable)
    /\ pc' = IF log'[Len(log')].error = "none" THEN "exit" ELSE "crashed"
    /\ UNCHANGED <<args, input_file, pool, titles, idx>>

\* process_multiple up to the loop: the file is read, or it is missing.
OpenInput ==
    /\ pc = "main"
    /\ args.inputs # ""
    /\ IF input_file.exists
       THEN /\ titles' = ReadTitles(input_file.lines)
            /\ pc' = "batch"
       ELSE /\ titles' = titles
            /\ pc' = "missing"
    /\ idx' = 1
    /\ UNCHANGED <<args, input_file, pool, files, clock, page, data, log>>

\* One iteration of the loop of process_multiple; an exception leaves the
\* loop for the handler around it.
ProcessTitle ==
    /\ pc = "batch"
    /\ idx <= Len(titles)
    /\ \E content \in Pages(pool), unwritable \in Unwritable :
          Call(titles[idx], content, unwritable)
    /\ IF log'[Len(log')].error = "none"
       THEN /\ idx' = idx + 1
            /\ pc' = "batch"
       ELSE /\ idx' = idx
            /\ pc' = "aborted"
    /\ UNCHANGED <<args, input_file, pool, titles>>

\* The loop is over: the completion message.
Finish ==
    /\ pc = "batch"
    /\ idx > Len(titles)
    /\ pc' = "done"
    /\ UNCHANGED <<args, input_file, pool, titles, idx, files, clock, page,
                   data, log>>

Next == Usage \/ RunSingle \/ OpenInput \/ ProcessTitle \/ Finish

Spec == Init /\ [][Next]_vars

NextSingle == RunSingle

SpecSingle == InitSingle /\ [][NextSingle]_vars

(***************************************************************************)
(* Properties.  page and data are the page and the snapshot of the last    *)
(* call of process_single, Last is its entry of the log.                   *)
(***************************************************************************)
Last == log[Len(log)]

HasFile(name) == \E f \in files : f.name = name

FileNamed(name) == CHOOSE f \in files : f.name = name

Exporters == {"markdown", "json", "text"}

Suffix(exporter) ==
    CASE exporter = "markdown" -> MdSuffix
      [] exporter = "json" -> JsonSuffix
      [] exporter = "text" -> TxtSuffix

\* The exporters a format selects, in the order process_single calls them.
ExportersOf(format) ==
    SelectSeq(<<"markdown", "json", "text">>,
              LAMBDA e : format = e \/ format = "all")

InSeq(x, seq) == \E i \in 1..Len(seq) : seq[i] = x

\* Every node of out is the excerpt of the node of src at the same place.
RECURSIVE ExcerptsOK(_, _)
ExcerptsOK(src, out) ==
    /\ Len(out) = Len(src)
    /\ \A i \in 1..Len(src) :
          /\ Len(src[i].text) <= SectionTextMax => out[i].text = src[i].text
          /\ Len(src[i].text) > SectionTextMax =>
                /\ Len(out[i].text) = SectionTextMax + Len(Ellipsis)
                /\ SubSeq(out[i].text, 1, SectionTextMax)
                      = SubSeq(src[i].text, 1, SectionTextMax)
                /\ SubSeq(out[i].text, SectionTextMax + 1,
                          SectionTextMax + Len(Ellipsis)) = Ellipsis
          /\ ExcerptsOK(src[i].sections, out[i].subsections)

\* C1: in the section tree of a snapshot every node, at every depth, has
\* the source text verbatim when it has at most 500 characters, and else
\* its first 500 characters followed by exactly one '...'.
C1_Excerpts == data # None => ExcerptsOK(page.sections, data.sections)

\* A nested section of 501 characters became 500 characters and the marker.
C1_Witness ==
    /\ data # None
    /\ \E i \in 1..Len(page.sections) :
          \E j \in 1..Len(page.sections[i].sections) :
             /\ Len(page.sections[i].sections[j].text) = SectionTextMax + 1
             /\ Len(data.sections[i].subsections[j].text)
                   = SectionTextMax + Len(Ellipsis)

\* C2: a snapshot retains the first min(100, n) of the provider's n links,
\* in the provider's order, and counts n; when the extraction raises it
\* retains nothing and counts 0.
C2_Links ==
    data # None =>
       IF page.links_raise
       THEN /\ data.links.internal_links = <<>>
            /\ data.links.internal_links_count = 0
       ELSE /\ Len(data.links.internal_links) = Min(LinksMax, Len(page.links))
            /\ \A i \in 1..Len(data.links.internal_links) :
                  data.links.internal_links[i] = page.links[i]
            /\ data.links.internal_links_count = Len(page.links)
            /\ data.links.internal_links_count
                  >= Len(data.links.internal_links)
            /\ Len(data.links.internal_links) <= LinksMax

\* A page of more links than are retained.
C2_Witness ==
    /\ data # None
    /\ ~page.links_raise
    /\ Len(page.links) > LinksMax
    /\ Len(data.links.internal_links) = LinksMax
    /\ data.links.internal_links_count = Len(page.links)

\* The Markdown file the last call wrote.
MarkdownWritten ==
    /\ log # <<>>
    /\ data # None
    /\ InSeq(safe_title(Last.title) \o MdSuffix, Last.written)

LastMarkdown == FileNamed(safe_title(Last.title) \o MdSuffix).body

\* C5 as stated: with more than 50 links retained the Markdown file shows
\* the total T, the first 50 links and a note of T - 50 more.
C5_NoteCountsFromTotal ==
    (MarkdownWritten /\ Len(data.links.internal_links) > MarkdownLinksMax) =>
       /\ LastMarkdown.links.total = Len(page.links)
       /\ LastMarkdown.links.listed = SubSeq(page.links, 1, MarkdownLinksMax)
       /\ LastMarkdown.links.more = <<Len(page.links) - MarkdownLinksMax>>

\* C5 as amended: the note counts the retained links that are not listed,
\* min(T, 100) - 50.
C5_NoteCountsFromRetained ==
    (MarkdownWritten /\ Len(data.links.internal_links) > MarkdownLinksMax) =>
       /\ LastMarkdown.links.total = Len(page.links)
       /\ LastMarkdown.links.listed = SubSeq(page.links, 1, MarkdownLinksMax)
       /\ LastMarkdown.links.more
             = <<Min(Len(page.links), LinksMax) - MarkdownLinksMax>>

\* 150 links: the file shows 150, lists 50 and notes 50 more.
C5_Witness ==
    /\ MarkdownWritten
    /\ Len(page.links) = LinksMax + MarkdownLinksMax
    /\ LastMarkdown.links.total = LinksMax + MarkdownLinksMax
    /\ Len(LastMarkdown.links.listed) = MarkdownLinksMax
    /\ LastMarkdown.links.more = <<MarkdownLinksMax>>

\* The last call ran with format 'all' on a title the provider has.
LastAll == log # <<>> /\ args.format = "all" /\ Last.exists

\* C3 as stated: when one exporter of format 'all' fails, the other two
\* are still invoked and their files are written.
C3_SiblingsStillRun ==
    (LastAll /\ Last.snapshot /\ Last.error = "export") =>
       \A e \in Exporters \ {Last.invoked[Len(Last.invoked)]} :
          /\ InSeq(e, Last.invoked)
          /\ InSeq(safe_title(Last.title) \o Suffix(e), Last.written)

\* The provider reported that the title of a log entry has no page.
NotFound(e) == ~e.exists /\ e.error = "none"

\* C4: a title the provider does not have yields no snapshot, no exporter
\* call and no file; it never ends the batch; and a batch that ran to its
\* end has attempted every title and written the files of every title the
\* provider has.
C4_NotFoundSkipped ==
    /\ \A i \in 1..Len(log) :
          NotFound(log[i]) =>
             /\ ~log[i].snapshot
             /\ log[i].invoked = <<>>
             /\ log[i].written = <<>>
             /\ i = Len(log) => pc \in {"batch", "done", "exit"}
    /\ \A f \in files :
          \E i \in 1..Len(log) : log[i].exists /\ InSeq(f.name, log[i].written)
    /\ pc = "batch" => Len(log) = idx - 1
    /\ pc = "done" =>
          /\ Len(log) = Len(titles)
          /\ \A i \in 1..Len(titles) :
                /\ log[i].title = titles[i]
                /\ log[i].exists =>
                      \A k \in 1..Len(ExportersOf(args.format)) :
                         /\ InSeq(safe_title(titles[i])
                                     \o Suffix(ExportersOf(args.format)[k]),
                                  log[i].written)
                         /\ HasFile(safe_title(titles[i])
                                     \o Suffix(ExportersOf(args.format)[k]))

\* A finished batch of a missing title followed by a title that has a page.
C4_Witness ==
    /\ pc = "done"
    /\ Len(titles) = 2
    /\ NotFound(log[1])
    /\ log[2].exists
    /\ log[2].written # <<>>
    /\ files # {}

\* C6 as stated: a batch that has read its input file attempts every title
\* of the list, whatever processing a title raises.
C6_EveryTitleAttempted ==
    pc \in {"done", "aborted"} => Len(log) = Len(titles)

\* C7: format 'all' on a title that has a page, no exporter failing: one
\* lookup and one timestamp per call, exactly the three files
\* '{stem}_complete.md', '.json' and '.txt' of the sanitized stem, all with
\* the title, the page id and the timestamp of the one snapshot.
C7_ThreeFilesOneSnapshot ==
    /\ clock = Cardinality({i \in 1..Len(log) : log[i].snapshot})
    /\ (LastAll /\ Last.error = "none") =>
          /\ Last.snapshot
          /\ data.timestamp = clock - 1
          /\ \E stem \in {safe_title(Last.title)} :
                /\ Len(stem) = Len(Last.title)
                /\ \A i \in 1..Len(stem) :
                      stem[i] \in Alnum \cup {" ", "-", "_"}
                /\ Last.written
                      = <<stem \o MdSuffix, stem \o JsonSuffix,
                          stem \o TxtSuffix>>
                /\ \A e \in Exporters :
                      /\ HasFile(stem \o Suffix(e))
                      /\ FileNamed(stem \o Suffix(e)).body.title = data.title
                      /\ FileNamed(stem \o Suffix(e)).body.pageid
                            = data.pageid
                      /\ FileNamed(stem \o Suffix(e)).body.timestamp
                            = data.timestamp

\* Three files of a title with characters the sanitization replaces.
C7_Witness ==
    /\ LastAll
    /\ Last.error = "none"
    /\ Last.title = <<"C", "+", "+">>
    /\ Len(Last.written) = 3
    /\ Cardinality(files) >= 3

\* C8 as stated: the flag is true exactly when a top-level section has a
\* reference title, and the excerpt is the first 1000 characters of the
\* text of the first such section, empty when there is none.
C8_FlagIffSection ==
    data # None =>
       /\ data.references.has_references_section
             = (\E i \in 1..Len(page.sections) :
                   IsReferenceTitle(page.sections[i].title))
       /\ data.references.references_text
             = IF FirstReference(page.sections) = 0
               THEN <<>>
               ELSE Take(page.sections[FirstReference(page.sections)].text,
                         ReferencesTextMax)
       /\ Len(data.references.references_text) <= ReferencesTextMax

\* Every node of out is the node of src at the same place, at its depth.
RECURSIVE TreeOK(_, _, _)
TreeOK(src, out, depth) ==
    /\ Len(out) = Len(src)
    /\ \A i \in 1..Len(src) :
          /\ out[i].title = src[i].title
          /\ out[i].level = depth
          /\ TreeOK(src[i].sections, out[i].subsections, depth + 1)

\* C9: the section tree has one node per source section, siblings in the
\* order of the source, and every node's level is its depth.
C9_TreeShape == data # None => TreeOK(page.sections, data.sections, 0)

\* A tree of three levels with two sections at the top.
C9_Witness ==
    /\ data # None
    /\ Len(data.sections) = 2
    /\ data.sections[1].title # data.sections[2].title
    /\ \E i \in 1..2 :
          \E j \in 1..Len(data.sections[i].subsections) :
             \E k \in 1..Len(data.sections[i].subsections[j].subsections) :
                data.sections[i].subsections[j].subsections[k].level = 2

\* C10 as stated: on a page nested deeper than the interpreter admits,
\* _get_sections returns a (truncated) tree: no RecursionError leaves it.
C10_NoRecursionError ==
    (log # <<>> /\ Last.exists) => (Last.error # "recursion" /\ Last.snapshot)
====
